---- MODULE Spec2Model ----
(***************************************************************************)
(* Model of plugins/event_source/vault_events.py: the entry point main,    *)
(* the fan-out coordinator _stream_multiple_patterns and one supervisor    *)
(* _stream_single_pattern per configured event pattern, all running as     *)
(* asyncio tasks on one event loop.                                        *)
(*                                                                         *)
(* A step of the model is one run of a task between two suspension points  *)
(* (await connect, await next message, await queue.put, await sleep,       *)
(* await gather), or one callback of the event loop.                       *)
(***************************************************************************)
EXTENDS Integers, Sequences, FiniteSets

\* ---------------------------------------------------------------- bounds
\* Connection attempts one supervisor may start.
MaxAttempts == 2
\* Messages received over all connections of the cohort.
MaxMsgs == 2

\* ---------------------------------------------------------------- inputs
\* args.get(...) of an option that is absent.
None == "<None>"

\* Python truthiness of an optional string (not x).
Truthy(x) == x # None /\ x # ""

\* The event_paths option: absent, one string, or a list of strings
\* (empty, one entry, two distinct entries, the same entry twice).
ArgEventPaths ==
    { [kind |-> "absent", str |-> "", list |-> <<>>],
      [kind |-> "str", str |-> "kv-v2/*", list |-> <<>>],
      [kind |-> "list", str |-> "", list |-> <<>>],
      [kind |-> "list", str |-> "", list |-> <<"kv-v2/*">>],
      [kind |-> "list", str |-> "", list |-> <<"kv-v2/*", "database/*">>],
      [kind |-> "list", str |-> "", list |-> <<"kv-v2/*", "kv-v2/*">>] }

\* (backoff_initial, backoff_max) pairs; whole numbers of seconds, which
\* float() and the doubling represent exactly.
ArgBackoffs == { <<1, 3>>, <<2, 3>>, <<2, 2>>, <<3, 2>> }

\* A Python dict of strings: a function from its keys to their values.
EmptyDict == << >>
Dict1(k, v) == [x \in {k} |-> v]
Dict2(k1, v1, k2, v2) == [x \in {k1, k2} |-> IF x = k1 THEN v1 ELSE v2]

\* The headers option: absent, or a dict.
NoHeaders == [present |-> FALSE, dict |-> EmptyDict]
ArgHeaders ==
    { NoHeaders } \cup
    { [present |-> TRUE, dict |-> d] :
        d \in { EmptyDict,
                Dict1("X-Extra", "v"),
                Dict1("X-Vault-Token", "other"),
                Dict1("X-Vault-Namespace", "ns2"),
                Dict2("X-Extra", "v", "X-Vault-Token", "other") } }

\* The namespace option: absent, empty, or a namespace.
ArgNamespaces == { None, "", "ns1" }

\* The configurations main is started with.  A list of two patterns is run
\* with one backoff pair each (distinct patterns with <<1, 3>>, a repeated
\* pattern with <<2, 2>>), the shorter lists with every pair; a missing
\* required option is tried with the other options at one value only.
ArgSets ==
    { [vault_addr |-> "http://127.0.0.1:8200", vault_token |-> "t",
       namespace |-> None, headers |-> NoHeaders,
       event_paths |-> p, backoff_initial |-> b[1], backoff_max |-> b[2]] :
        <<p, b>> \in
            { x \in ArgEventPaths \X ArgBackoffs :
                \/ Len(x[1].list) < 2
                \/ x[1].list[1] # x[1].list[2] /\ x[2] = <<1, 3>>
                \/ x[1].list[1] = x[1].list[2] /\ x[2] = <<2, 2>> } }
    \cup
    { [vault_addr |-> a, vault_token |-> t,
       namespace |-> None, headers |-> NoHeaders,
       event_paths |-> [kind |-> "absent", str |-> "", list |-> <<>>],
       backoff_initial |-> 1, backoff_max |-> 3] :
        a \in {None, "", "http://127.0.0.1:8200"}, t \in {None, "", "t"} }

\* The configurations that vary the namespace and the headers options, each
\* with one pattern and one backoff pair.
ArgSetsHeaders ==
    { [vault_addr |-> "http://127.0.0.1:8200", vault_token |-> "t",
       namespace |-> n, headers |-> h,
       event_paths |-> [kind |-> "str", str |-> "kv-v2/*", list |-> <<>>],
       backoff_initial |-> 1, backoff_max |-> 3] :
        n \in ArgNamespaces, h \in ArgHeaders }

\* A Python str is the sequence of its characters.
Http == << "h", "t", "t", "p", ":", "/", "/" >>
Https == << "h", "t", "t", "p", "s", ":", "/", "/" >>
Ws == << "w", "s", ":", "/", "/" >>
Wss == << "w", "s", "s", ":", "/", "/" >>
SubscribePath ==
    << "/", "v", "1", "/", "s", "y", "s", "/", "e", "v", "e", "n", "t", "s",
       "/", "s", "u", "b", "s", "c", "r", "i", "b", "e", "/" >>
JsonQuery == << "?", "j", "s", "o", "n", "=", "t", "r", "u", "e" >>
FilterParam == << "&", "f", "i", "l", "t", "e", "r", "=" >>

\* The base addresses _build_event_url is called with: each scheme alone,
\* each scheme followed by a path that holds a scheme again, no scheme, and
\* an upper-case scheme.
UrlBases ==
    { Https \o << "v" >>,
      Http \o << "v" >>,
      Https \o << "v", "/" >> \o Http \o << "x" >>,
      Http \o << "v", "/" >> \o Https \o << "x" >>,
      Http \o << "v", "/" >> \o Http \o << "x" >>,
      Https \o << "v", "/" >> \o Https \o << "x" >>,
      << "v" >>,
      << "H", "T", "T", "P", ":", "/", "/", "v" >> }

\* The event patterns it is called with.
UrlPatterns ==
    { << "*" >>, << "k", "v", "/", "*" >>, << "d", "b", "/", "x" >> }

\* The filter expressions it is called with: None, the empty string, and
\* expressions with safe and with reserved characters.
NoFilter == [present |-> FALSE, str |-> << >>]
UrlFilters ==
    { NoFilter } \cup
    { [present |-> TRUE, str |-> f] :
        f \in { << >>,
                << "a" >>,
                << "a", "/", "b" >>,
                << "a", " ", "=", "=", " ", "\"", "b", "\"" >>,
                << "a", "&", "f", "i", "l", "t", "e", "r", "=", "b" >> } }

\* The frame of one call of _build_event_url: its arguments, its locals and
\* the statement it is at.
NoCall ==
    [vault_addr |-> << >>, event_pattern |-> << >>, filter_expression |-> NoFilter,
     ws_url |-> << >>, event_url |-> << >>, at |-> "none"]
UrlCalls ==
    { [vault_addr |-> b, event_pattern |-> p, filter_expression |-> f,
       ws_url |-> << >>, event_url |-> << >>, at |-> "scheme"] :
        b \in UrlBases, p \in UrlPatterns, f \in UrlFilters }

\* Text and binary frames a connection may deliver.
Frames ==
    { "{\"event_type\":\"kv-v2/data-write\"}",
      "[1]",
      "NaN",
      "{bad",
      "b'\\xff'" }

\* ---------------------------------------------------------------- state
VARIABLES
    args,         \* the args dictionary main was called with
    main_pc,      \* position of the task running main/_stream_multiple_patterns
    event_paths,  \* the normalised list of patterns; tasks[i] runs event_paths[i]
    pc,           \* pc[i]: position of supervisor task i
    backoff,      \* backoff[i]: the local variable backoff of supervisor i
    attempts,     \* attempts[i]: connect() calls supervisor i has started
    nfail,        \* nfail[i]: backoff sleeps finished since the last successful connect
    recv,         \* recv[i]: the frames supervisor i has received, in order
    pending,      \* pending[i]: the event supervisor i is putting on the queue
    cancel_req,   \* cancel_req[i]: task.cancel() reached running supervisor task i
    notified,     \* notified[i]: the first gather's done-callback ran for task i
    outer,        \* the future of the first gather: pending, exception, cancelled
    must_cancel,  \* the main task's pending cancellation (Task._must_cancel)
    cancel_at,    \* never, or how the tasks stood when the main task was cancelled
    grown,        \* grown[i]: the connect that opened the current or last connection
                  \* found backoff off backoff_initial, and no sleep has ended since
    queue,        \* every event put on the output queue, oldest first
    headers,      \* the headers dict main built and handed to every supervisor
    url           \* the frame of a call of _build_event_url

vars == << args, main_pc, event_paths, pc, backoff, attempts, nfail, recv,
           pending, cancel_req, notified, outer, must_cancel, cancel_at,
           grown, queue, headers, url >>

\* Groups of variables for the frame conditions.
confVars == << args, event_paths, headers, url >>
backoffVars == << backoff, attempts, nfail, grown >>
msgVars == << recv, pending, queue >>
gatherVars == << notified, outer, must_cancel, cancel_at >>

Min(a, b) == IF a <= b THEN a ELSE b

Tasks == DOMAIN pc

Running == {"connecting", "streaming", "put", "backoff"}
Finished == {"cancelled", "failed"}
MainFinished == {"config_error", "returned", "cancelled", "failed"}

\* A supervisor task is scheduled to run on: it is at a suspension point and
\* no cancellation is waiting to be thrown into it.
CanRun(i) == pc[i] \in Running /\ ~cancel_req[i]

\* Before main runs: no task, nothing queued, no headers built.
Idle ==
    /\ main_pc = "start"
    /\ event_paths = <<>>
    /\ pc = <<>>
    /\ backoff = <<>>
    /\ attempts = <<>>
    /\ nfail = <<>>
    /\ recv = <<>>
    /\ pending = <<>>
    /\ cancel_req = <<>>
    /\ notified = <<>>
    /\ outer = "pending"
    /\ must_cancel = FALSE
    /\ cancel_at = "never"
    /\ grown = <<>>
    /\ queue = <<>>
    /\ headers = EmptyDict

Init == args \in ArgSets /\ Idle /\ url = NoCall

\* main started with the namespace and headers options varied.
InitHeaders == args \in ArgSetsHeaders /\ Idle /\ url = NoCall

\* A call of _build_event_url on its own: main is not started.
InitUrl ==
    /\ args = [vault_addr |-> "http://127.0.0.1:8200", vault_token |-> "t",
               namespace |-> None, headers |-> NoHeaders,
               event_paths |-> [kind |-> "absent", str |-> "", list |-> <<>>],
               backoff_initial |-> 1, backoff_max |-> 3]
    /\ Idle
    /\ url \in UrlCalls

\* ------------------------------------------------------- message decoding
\* Python values: a dict with its items, or a value of another type.
PyDict(items) == [type |-> "dict", items |-> items]
PyValue(type, repr) == [type |-> type, repr |-> repr]

\* pending[i] while supervisor i is not inside queue.put.
NoEvent == PyValue("<unset>", "")

\* json.loads(msg) on each frame: the value it returns, or the exception it
\* raises.  The json module accepts the literal NaN and returns a float;
\* bytes that are not UTF-8 raise UnicodeDecodeError.
JsonLoads(msg) ==
    CASE msg = "{\"event_type\":\"kv-v2/data-write\"}" ->
           [raises |-> "none", text |-> "",
            value |-> PyDict([event_type |-> "kv-v2/data-write"])]
      [] msg = "[1]" ->
           [raises |-> "none", text |-> "", value |-> PyValue("list", "[1]")]
      [] msg = "NaN" ->
           [raises |-> "none", text |-> "", value |-> PyValue("float", "nan")]
      [] msg = "{bad" ->
           [raises |-> "JSONDecodeError",
            text |-> "Expecting property name enclosed in double quotes",
            value |-> NoEvent]
      [] msg = "b'\\xff'" ->
           [raises |-> "UnicodeDecodeError",
            text |-> "'utf-8' codec can't decode byte 0xff in position 0",
            value |-> NoEvent]

\* event.get("event_type", "unknown"), the argument of log.debug: only a
\* dict has the method.
HasGet(value) == value.type = "dict"

\* The body of "async for msg in ws" up to queue.put: the event to put, or
\* the exception that leaves the loop body.
DecodeMessage(msg, event_pattern) ==
    LET r == JsonLoads(msg) IN
    IF r.raises = "JSONDecodeError"
    THEN [raises |-> "none",
          event |-> PyDict([raw |-> msg, error |-> "json_decode_failed",
                            pattern |-> event_pattern])]
    ELSE IF r.raises \in {"UnicodeDecodeError", "ValueError", "TypeError"}
    THEN [raises |-> "none",
          event |-> PyDict([raw |-> msg, error |-> r.text,
                            pattern |-> event_pattern])]
    ELSE IF HasGet(r.value)
    THEN [raises |-> "none", event |-> r.value]
    ELSE [raises |-> "AttributeError", event |-> NoEvent]

\* Mutation of NextBackoff: a delay above the cap is kept, not cut.
NextBackoffKeepsLarger(b, backoff_max) ==
    IF b > backoff_max THEN b ELSE Min(b * 2, backoff_max)

\* Mutation of NextBackoff: the doubling without the cap.
NextBackoffUncapped(b, backoff_max) == b * 2

\* min(backoff * 2, backoff_max)
NextBackoff(b, backoff_max) == Min(b * 2, backoff_max)

\* ------------------------------------------------------- the entry point
\* Mutation of NormalizeEventPaths: an empty list is replaced by the
\* default list too.
NormalizeEventPathsOrDefault(p) ==
    CASE p.kind = "absent" -> <<"kv-v2/data-*">>
      [] p.kind = "str" -> <<p.str>>
      [] p.kind = "list" -> IF p.list = <<>> THEN <<"kv-v2/data-*">> ELSE p.list

\* isinstance(event_paths, str) -> [event_paths]; absent -> the default list.
NormalizeEventPaths(p) ==
    CASE p.kind = "absent" -> <<"kv-v2/data-*">>
      [] p.kind = "str" -> <<p.str>>
      [] p.kind = "list" -> p.list

\* dict.update(other): the keys of other are set to other's values.
DictUpdate(d, other) ==
    [k \in DOMAIN d \cup DOMAIN other |->
        IF k \in DOMAIN other THEN other[k] ELSE d[k]]

\* Mutation of BuildHeaders: the namespace header is set whenever the
\* option is present, the empty string included.
BuildHeadersAnyNamespace(a) ==
    LET h0 == Dict1("X-Vault-Token", a.vault_token)
        h1 == IF a.namespace # None
              THEN DictUpdate(h0, Dict1("X-Vault-Namespace", a.namespace))
              ELSE h0
    IN  IF a.headers.present /\ a.headers.dict # EmptyDict
        THEN DictUpdate(h1, a.headers.dict) ELSE h1

\* Mutation of BuildHeaders: the caller's headers are merged first, so the
\* token and namespace headers win a collision.
BuildHeadersDefaultsWin(a) ==
    LET c == IF a.headers.present THEN a.headers.dict ELSE EmptyDict
        h1 == DictUpdate(c, Dict1("X-Vault-Token", a.vault_token))
    IN  IF Truthy(a.namespace)
        THEN DictUpdate(h1, Dict1("X-Vault-Namespace", a.namespace))
        ELSE h1

\* The headers dict of main: the token, the namespace if the option is
\* truthy, then headers.update(custom_headers) if that dict is not empty.
BuildHeaders(a) ==
    LET h0 == Dict1("X-Vault-Token", a.vault_token)
        h1 == IF Truthy(a.namespace)
              THEN DictUpdate(h0, Dict1("X-Vault-Namespace", a.namespace))
              ELSE h0
        custom_headers == IF a.headers.present THEN a.headers.dict ELSE EmptyDict
    IN  IF custom_headers # EmptyDict
        THEN DictUpdate(h1, custom_headers) ELSE h1

\* The tasks list of the coordinator: one task per entry of the list, each
\* started at its first connect() with backoff = backoff_initial.
SpawnTasks(paths) ==
    LET T == 1 .. Len(paths) IN
    /\ pc' = [i \in T |-> "connecting"]
    /\ backoff' = [i \in T |-> args.backoff_initial]
    /\ attempts' = [i \in T |-> 1]
    /\ nfail' = [i \in T |-> 0]
    /\ grown' = [i \in T |-> FALSE]
    /\ recv' = [i \in T |-> <<>>]
    /\ pending' = [i \in T |-> NoEvent]
    /\ cancel_req' = [i \in T |-> FALSE]
    /\ notified' = [i \in T |-> FALSE]

\* Mutation of MainStart: the tasks are created without the check of
\* vault_addr and vault_token.
MainStartNoValidation ==
    /\ main_pc = "start"
    /\ LET paths == NormalizeEventPaths(args.event_paths) IN
       /\ event_paths' = paths
       /\ headers' = BuildHeaders(args)
       /\ SpawnTasks(paths)
       /\ main_pc' = IF Len(paths) = 0 THEN "returned" ELSE "gather"
    /\ UNCHANGED << args, url, outer, must_cancel, cancel_at, queue >>

\* main up to its await of the coordinator, and the coordinator up to its
\* await of the first gather: validation, normalisation, then the tasks.
\* gather() of no task at all is done at once and main returns.
MainStart ==
    /\ main_pc = "start"
    /\ IF ~Truthy(args.vault_addr) \/ ~Truthy(args.vault_token)
       THEN /\ main_pc' = "config_error"
            /\ UNCHANGED << event_paths, headers, pc, backoffVars, recv,
                            pending, cancel_req, notified >>
       ELSE LET paths == NormalizeEventPaths(args.event_paths) IN
            /\ event_paths' = paths
            /\ headers' = BuildHeaders(args)
            /\ SpawnTasks(paths)
            /\ main_pc' = IF Len(paths) = 0 THEN "returned" ELSE "gather"
    /\ UNCHANGED << args, url, outer, must_cancel, cancel_at, queue >>

\* ------------------------------------------------------- the supervisor
\* Mutation of ConnectOk: the connection opens and backoff keeps its value.
ConnectOkNoReset(i) ==
    /\ CanRun(i) /\ pc[i] = "connecting"
    /\ pc' = [pc EXCEPT ![i] = "streaming"]
    /\ grown' = [grown EXCEPT ![i] = backoff[i] # args.backoff_initial]
    /\ nfail' = [nfail EXCEPT ![i] = 0]
    /\ UNCHANGED << confVars, main_pc, backoff, attempts, msgVars, cancel_req,
                    gatherVars >>

\* connect() succeeds: backoff is reset and the message loop starts.
ConnectOk(i) ==
    /\ CanRun(i) /\ pc[i] = "connecting"
    /\ pc' = [pc EXCEPT ![i] = "streaming"]
    /\ backoff' = [backoff EXCEPT ![i] = args.backoff_initial]
    /\ grown' = [grown EXCEPT ![i] = backoff[i] # args.backoff_initial]
    /\ nfail' = [nfail EXCEPT ![i] = 0]
    /\ UNCHANGED << confVars, main_pc, attempts, msgVars, cancel_req,
                    gatherVars >>

\* connect() raises one of the caught exceptions (ConnectionClosed,
\* WebSocketException, OSError, ssl.SSLError): sleep(backoff) starts.
ConnectFail(i) ==
    /\ CanRun(i) /\ pc[i] = "connecting"
    /\ pc' = [pc EXCEPT ![i] = "backoff"]
    /\ UNCHANGED << confVars, main_pc, backoffVars, msgVars, cancel_req,
                    gatherVars >>

\* Mutation of ConnectionDrop: backoff is doubled when the connection
\* drops, before the sleep.
ConnectionDropDoubles(i) ==
    /\ CanRun(i) /\ pc[i] = "streaming"
    /\ pc' = [pc EXCEPT ![i] = "backoff"]
    /\ backoff' = [backoff EXCEPT ![i] = NextBackoff(@, args.backoff_max)]
    /\ UNCHANGED << confVars, main_pc, attempts, nfail, grown, msgVars,
                    cancel_req, gatherVars >>

\* The connection fails while the supervisor waits for a message: the
\* iterator raises ConnectionClosed and sleep(backoff) starts.
ConnectionDrop(i) ==
    /\ CanRun(i) /\ pc[i] = "streaming"
    /\ pc' = [pc EXCEPT ![i] = "backoff"]
    /\ UNCHANGED << confVars, main_pc, backoffVars, msgVars, cancel_req,
                    gatherVars >>

\* The peer closes the connection normally: the iterator ends without an
\* exception, the "async with" block is left and "while True" calls
\* connect() again at once.
ConnectionEnd(i) ==
    /\ CanRun(i) /\ pc[i] = "streaming"
    /\ attempts[i] < MaxAttempts
    /\ pc' = [pc EXCEPT ![i] = "connecting"]
    /\ attempts' = [attempts EXCEPT ![i] = @ + 1]
    /\ UNCHANGED << confVars, main_pc, backoff, nfail, grown, msgVars,
                    cancel_req, gatherVars >>

\* Mutation of BackoffElapsed: backoff is one value shared by the cohort, so
\* the end of one sleep doubles it for every supervisor.
BackoffElapsedShared(i) ==
    /\ CanRun(i) /\ pc[i] = "backoff"
    /\ attempts[i] < MaxAttempts
    /\ backoff' = [j \in Tasks |-> NextBackoff(backoff[j], args.backoff_max)]
    /\ nfail' = [nfail EXCEPT ![i] = @ + 1]
    /\ attempts' = [attempts EXCEPT ![i] = @ + 1]
    /\ grown' = [grown EXCEPT ![i] = FALSE]
    /\ pc' = [pc EXCEPT ![i] = "connecting"]
    /\ UNCHANGED << confVars, main_pc, msgVars, cancel_req, gatherVars >>

\* sleep(backoff) returns: backoff is doubled up to backoff_max and the
\* loop calls connect() again.
BackoffElapsed(i) ==
    /\ CanRun(i) /\ pc[i] = "backoff"
    /\ attempts[i] < MaxAttempts
    /\ backoff' = [backoff EXCEPT ![i] = NextBackoff(@, args.backoff_max)]
    /\ nfail' = [nfail EXCEPT ![i] = @ + 1]
    /\ attempts' = [attempts EXCEPT ![i] = @ + 1]
    /\ grown' = [grown EXCEPT ![i] = FALSE]
    /\ pc' = [pc EXCEPT ![i] = "connecting"]
    /\ UNCHANGED << confVars, main_pc, msgVars, cancel_req, gatherVars >>

\* Messages received so far by the whole cohort.
RECURSIVE SumLen(_, _)
SumLen(f, S) ==
    IF S = {} THEN 0
    ELSE LET i == CHOOSE j \in S : TRUE IN Len(f[i]) + SumLen(f, S \ {i})

\* A frame arrives: it is decoded and queue.put(event) starts, or the
\* exception of the loop body leaves the supervisor, which catches neither
\* AttributeError nor its base classes.
Receive(i, msg) ==
    /\ CanRun(i) /\ pc[i] = "streaming"
    /\ SumLen(recv, Tasks) < MaxMsgs
    /\ recv' = [recv EXCEPT ![i] = Append(@, msg)]
    /\ LET d == DecodeMessage(msg, event_paths[i]) IN
       IF d.raises = "none"
       THEN /\ pc' = [pc EXCEPT ![i] = "put"]
            /\ pending' = [pending EXCEPT ![i] = d.event]
       ELSE /\ pc' = [pc EXCEPT ![i] = "failed"]
            /\ UNCHANGED pending
    /\ UNCHANGED << confVars, main_pc, backoffVars, queue, cancel_req,
                    gatherVars >>

\* Mutation of QueuePut: the item goes to the head of the queue.
QueuePutFront(q, item) == << item >> \o q

\* queue.put(item): the item goes to the tail of the queue.
QueuePut(q, item) == Append(q, item)

\* queue.put(event) completes and the supervisor waits for the next message.
Put(i) ==
    /\ CanRun(i) /\ pc[i] = "put"
    /\ queue' = QueuePut(queue, [src |-> i, event |-> pending[i]])
    /\ pending' = [pending EXCEPT ![i] = NoEvent]
    /\ pc' = [pc EXCEPT ![i] = "streaming"]
    /\ UNCHANGED << confVars, main_pc, backoffVars, recv, cancel_req,
                    gatherVars >>

\* Mutation of Cancelled: the handler swallows CancelledError and the
\* "while True" loop calls connect() again.
CancelledSwallowed(i) ==
    /\ pc[i] \in Running /\ cancel_req[i]
    /\ attempts[i] < MaxAttempts + 1
    /\ pc' = [pc EXCEPT ![i] = "connecting"]
    /\ attempts' = [attempts EXCEPT ![i] = @ + 1]
    /\ pending' = [pending EXCEPT ![i] = NoEvent]
    /\ cancel_req' = [cancel_req EXCEPT ![i] = FALSE]
    /\ UNCHANGED << confVars, main_pc, backoff, nfail, grown, recv, queue,
                    gatherVars >>

\* CancelledError is thrown into the supervisor at its suspension point.
\* Inside the try block "except asyncio.CancelledError" logs and re-raises;
\* inside sleep(backoff), which runs in the other except clause, nothing
\* catches it.  Either way the task ends cancelled.
Cancelled(i) ==
    /\ pc[i] \in Running /\ cancel_req[i]
    /\ pc' = [pc EXCEPT ![i] = "cancelled"]
    /\ pending' = [pending EXCEPT ![i] = NoEvent]
    /\ UNCHANGED << confVars, main_pc, backoffVars, recv, queue, cancel_req,
                    gatherVars >>

\* ------------------------------------------------------- the coordinator
\* Every task of the list has finished: what gather(*tasks,
\* return_exceptions=True) waits for.
AllFinished == \A i \in Tasks : pc[i] \in Finished

\* The event loop runs the done-callback the first gather put on task i.
\* Without return_exceptions the first finished task settles the outer
\* future: with the task's exception, or with CancelledError.
GatherCallback(i) ==
    /\ pc[i] \in Finished /\ ~notified[i]
    /\ notified' = [notified EXCEPT ![i] = TRUE]
    /\ outer' = IF outer # "pending" THEN outer
                ELSE IF pc[i] = "cancelled" THEN "cancelled"
                ELSE "exception"
    /\ UNCHANGED << confVars, main_pc, pc, backoffVars, msgVars, cancel_req,
                    must_cancel, cancel_at >>

\* task.cancel() on every task of the list that has not finished.
CancelTasks == [i \in Tasks |-> cancel_req[i] \/ pc[i] \in Running]

\* The host cancels the task running main while it awaits the first gather
\* (one shutdown signal).  Task.cancel() cancels the awaited future: a
\* pending gather future passes the request to its unfinished children and
\* answers True if one took it; otherwise the request stays on the task.
CancelMain ==
    /\ main_pc = "gather" /\ cancel_at = "never"
    /\ cancel_at' = IF \A i \in Tasks : pc[i] \in Running
                    THEN "all_running" ELSE "some_finished"
    /\ IF outer = "pending" /\ \E i \in Tasks : pc[i] \in Running
       THEN /\ cancel_req' = CancelTasks
            /\ UNCHANGED must_cancel
       ELSE /\ must_cancel' = TRUE
            /\ UNCHANGED cancel_req
    /\ UNCHANGED << confVars, main_pc, pc, backoffVars, msgVars, notified,
                    outer >>

\* The first gather is settled and the main task runs on.  A pending
\* cancellation or a cancelled gather raises CancelledError at the await:
\* the handler cancels every task and awaits the second gather.  Any other
\* exception of a task leaves the coordinator and main as it is.
MainWake ==
    /\ main_pc = "gather" /\ outer # "pending"
    /\ IF must_cancel \/ outer = "cancelled"
       THEN /\ main_pc' = "shutdown"
            /\ cancel_req' = CancelTasks
            /\ must_cancel' = FALSE
       ELSE /\ main_pc' = "failed"
            /\ UNCHANGED << cancel_req, must_cancel >>
    /\ UNCHANGED << confVars, pc, backoffVars, msgVars, notified, outer,
                    cancel_at >>

\* Mutation of MainShutdownDone: the handler re-raises without awaiting
\* the second gather.
MainShutdownNoWait ==
    /\ main_pc = "shutdown"
    /\ main_pc' = "cancelled"
    /\ UNCHANGED << confVars, pc, backoffVars, msgVars, cancel_req,
                    gatherVars >>

\* The second gather returns once every task has finished; the handler
\* re-raises CancelledError, which leaves the coordinator and main.
MainShutdownDone ==
    /\ main_pc = "shutdown"
    /\ AllFinished
    /\ main_pc' = "cancelled"
    /\ UNCHANGED << confVars, pc, backoffVars, msgVars, cancel_req,
                    gatherVars >>

\* ------------------------------------------------------- specification
Next ==
    \/ MainStart
    \/ CancelMain
    \/ MainWake
    \/ MainShutdownDone
    \/ \E i \in Tasks : ConnectOk(i)
    \/ \E i \in Tasks : ConnectFail(i)
    \/ \E i \in Tasks : ConnectionDrop(i)
    \/ \E i \in Tasks : ConnectionEnd(i)
    \/ \E i \in Tasks : BackoffElapsed(i)
    \/ \E i \in Tasks, msg \in Frames : Receive(i, msg)
    \/ \E i \in Tasks : Put(i)
    \/ \E i \in Tasks : Cancelled(i)
    \/ \E i \in Tasks : GatherCallback(i)

Spec == Init /\ [][Next]_vars

\* The same program, started with the namespace and headers options varied.
SpecHeaders == InitHeaders /\ [][Next]_vars

\* ------------------------------------------------------- _build_event_url
\* str.startswith(prefix).
StartsWith(s, prefix) ==
    /\ Len(s) >= Len(prefix)
    /\ SubSeq(s, 1, Len(prefix)) = prefix

\* str.replace(old, new) for a non-empty old: every occurrence of old, found
\* left to right without overlap, becomes new.
RECURSIVE Replace(_, _, _)
Replace(s, old, new) ==
    IF Len(s) < Len(old) THEN s
    ELSE IF SubSeq(s, 1, Len(old)) = old
         THEN new \o Replace(SubSeq(s, Len(old) + 1, Len(s)), old, new)
         ELSE << Head(s) >> \o Replace(Tail(s), old, new)

\* The characters urllib.parse.quote never encodes, and its default safe "/".
AlwaysSafe ==
    { "a", "b", "c", "d", "e", "f", "g", "h", "i", "j", "k", "l", "m", "n",
      "o", "p", "q", "r", "s", "t", "u", "v", "w", "x", "y", "z",
      "A", "B", "C", "D", "E", "F", "G", "H", "I", "J", "K", "L", "M", "N",
      "O", "P", "Q", "R", "S", "T", "U", "V", "W", "X", "Y", "Z",
      "0", "1", "2", "3", "4", "5", "6", "7", "8", "9", "_", ".", "-", "~" }

\* %XX of the other characters the filter expressions are written with.
PercentEncoded(c) ==
    CASE c = " " -> << "%", "2", "0" >>
      [] c = "\"" -> << "%", "2", "2" >>
      [] c = "&" -> << "%", "2", "6" >>
      [] c = "=" -> << "%", "3", "D" >>

\* urllib.parse.quote(s): safe characters stay, every other becomes %XX.
RECURSIVE quote(_)
quote(s) ==
    IF s = << >> THEN << >>
    ELSE (IF Head(s) \in AlwaysSafe \cup {"/"}
          THEN << Head(s) >> ELSE PercentEncoded(Head(s)))
         \o quote(Tail(s))

\* Mutation of FilterSuffix: the filter is tested against None, not for
\* truth, so an empty filter is appended too.
FilterSuffixNotNone(filter_expression) ==
    IF filter_expression.present
    THEN FilterParam \o quote(filter_expression.str)
    ELSE << >>

\* What the filter adds to the URL: "&filter=" and the quoted filter if the
\* filter is truthy, nothing otherwise.
FilterSuffix(filter_expression) ==
    IF filter_expression.present /\ filter_expression.str # << >>
    THEN FilterParam \o quote(filter_expression.str)
    ELSE << >>

\* The scheme conversion: https:// to wss:// if the address starts with
\* https://, http:// to ws:// otherwise.
UrlScheme ==
    /\ url.at = "scheme"
    /\ url' = [url EXCEPT
                 !.ws_url = IF StartsWith(url.vault_addr, Https)
                            THEN Replace(url.vault_addr, Https, Wss)
                            ELSE Replace(url.vault_addr, Http, Ws),
                 !.at = "path"]
    /\ UNCHANGED << args, event_paths, headers, main_pc, pc, backoffVars,
                    msgVars, cancel_req, gatherVars >>

\* The subscription URL without a filter.
UrlPath ==
    /\ url.at = "path"
    /\ url' = [url EXCEPT
                 !.event_url = url.ws_url \o SubscribePath \o url.event_pattern
                               \o JsonQuery,
                 !.at = "filter"]
    /\ UNCHANGED << args, event_paths, headers, main_pc, pc, backoffVars,
                    msgVars, cancel_req, gatherVars >>

\* The filter is appended if there is one, and the URL is returned.
UrlFilter ==
    /\ url.at = "filter"
    /\ url' = [url EXCEPT
                 !.event_url = url.event_url \o FilterSuffix(url.filter_expression),
                 !.at = "return"]
    /\ UNCHANGED << args, event_paths, headers, main_pc, pc, backoffVars,
                    msgVars, cancel_req, gatherVars >>

NextUrl ==
    \/ UrlScheme
    \/ UrlPath
    \/ UrlFilter

\* Calls of _build_event_url over the base addresses, patterns and filters.
SpecUrl == InitUrl /\ [][NextUrl]_vars

TypeOK ==
    /\ main_pc \in {"start", "gather", "shutdown"} \cup MainFinished
    /\ \A i \in Tasks : pc[i] \in Running \cup Finished
    /\ outer \in {"pending", "exception", "cancelled"}

\* ------------------------------------------------------- properties
\* The events supervisor i has put on the queue, oldest first.
RecordsOf(i) ==
    LET s == SelectSeq(queue, LAMBDA r : r.src = i)
    IN [k \in 1 .. Len(s) |-> s[k].event]

\* The frames that are JSON texts by the JSON grammar (RFC 8259): an
\* object and an array are; NaN, a broken object and non-UTF-8 bytes are not.
WellFormedJson(msg) == msg \in {"{\"event_type\":\"kv-v2/data-write\"}", "[1]"}

\* A Decode-Failure record for msg from the supervisor of event_pattern.
IsDecodeFailure(event, msg, event_pattern) ==
    /\ event.type = "dict"
    /\ DOMAIN event.items = {"raw", "error", "pattern"}
    /\ event.items.raw = msg
    /\ event.items.pattern = event_pattern

\* C1: with 0 < backoff_initial <= backoff_max, the sleep a supervisor
\* starts after k finished sleeps without a successful connect in between
\* lasts min(backoff_initial * 2^k, backoff_max), and never more than
\* backoff_max.
BackoffSequence ==
    args.backoff_initial <= args.backoff_max =>
        \A i \in Tasks :
            pc[i] = "backoff" =>
                /\ backoff[i] =
                       Min(args.backoff_initial * 2 ^ nfail[i], args.backoff_max)
                /\ backoff[i] <= args.backoff_max

\* C1 witness: a second consecutive sleep that the cap cut from 4 to 3.
BackoffCapped ==
    \E i \in Tasks :
        /\ pc[i] = "backoff" /\ nfail[i] = 1
        /\ args.backoff_initial = 2 /\ args.backoff_max = 3
        /\ backoff[i] = 3

\* C2: from a successful connect until the next sleep has ended, backoff
\* is backoff_initial: the sleep after the next failure lasts exactly
\* backoff_initial, whatever backoff had grown to.
ResetOnConnect ==
    \A i \in Tasks : nfail[i] = 0 => backoff[i] = args.backoff_initial

\* C2 witness: a connect found backoff grown, the connection failed later
\* and the supervisor now sleeps backoff_initial.
SleepsInitialAfterReset ==
    \E i \in Tasks :
        /\ grown[i] /\ pc[i] = "backoff"
        /\ backoff[i] = args.backoff_initial

\* C3: when the main task is cancelled while every supervisor is connecting,
\* streaming, inside queue.put or sleeping, every supervisor task has
\* finished once the coordinator's await has ended.
CancelAwaitsCohort ==
    (cancel_at = "all_running" /\ main_pc \in MainFinished) =>
        \A i \in Tasks : pc[i] \in Finished

\* C3 witness: a cohort of two, cancelled while both ran, has ended.
CohortCancelled ==
    /\ cancel_at = "all_running" /\ main_pc = "cancelled"
    /\ Cardinality(Tasks) = 2
    /\ \A i \in Tasks : pc[i] = "cancelled"

\* C4: every received frame that is not well-formed JSON becomes exactly
\* one Decode-Failure record with the frame and the supervisor's pattern
\* (unless the supervisor is still inside queue.put or was cancelled
\* there), and never ends the supervisor.
MalformedBecomesDecodeFailure ==
    \A i \in Tasks : \A k \in 1 .. Len(recv[i]) :
        ~WellFormedJson(recv[i][k]) =>
            /\ ~(pc[i] = "failed" /\ k = Len(recv[i]))
            /\ IF k <= Len(RecordsOf(i))
               THEN IsDecodeFailure(RecordsOf(i)[k], recv[i][k], event_paths[i])
               ELSE k = Len(recv[i]) /\ pc[i] \in {"put", "cancelled"}

\* C5: every received frame, whatever its content, has exactly one event
\* on the queue (the last one may still be inside queue.put, or have been
\* cancelled there), and a decoded value is put unmodified.
EveryMessageEnqueued ==
    \A i \in Tasks :
        /\ \/ Len(RecordsOf(i)) = Len(recv[i])
           \/ /\ Len(RecordsOf(i)) = Len(recv[i]) - 1
              /\ pc[i] \in {"put", "cancelled"}
        /\ \A k \in 1 .. Len(RecordsOf(i)) :
               JsonLoads(recv[i][k]).raises = "none" =>
                   RecordsOf(i)[k] = JsonLoads(recv[i][k]).value

\* C6: a supervisor task finishes only by cancellation.
EndsOnlyByCancellation ==
    \A i \in Tasks : pc[i] \in Finished => cancel_req[i] /\ pc[i] = "cancelled"

\* C7: once cancellation has reached a supervisor it starts no connect,
\* puts no event and finishes no sleep: its only step is to end cancelled.
NoActivityAfterCancel ==
    [][\A i \in Tasks :
          cancel_req[i] =>
              /\ cancel_req'[i]
              /\ attempts'[i] = attempts[i]
              /\ backoff'[i] = backoff[i]
              /\ Len(SelectSeq(queue', LAMBDA r : r.src = i))
                     = Len(SelectSeq(queue, LAMBDA r : r.src = i))
              /\ pc'[i] \in {pc[i], "cancelled"}]_vars

\* C7 witness: one supervisor has ended cancelled, another has the
\* cancellation waiting while it sleeps in backoff.
CancelledWhileSleeping ==
    \E i, j \in Tasks :
        /\ pc[i] = "cancelled" /\ cancel_req[i]
        /\ pc[j] = "backoff" /\ cancel_req[j]

\* C8: a supervisor that was cancelled ends cancelled, and a main task
\* that was cancelled ends by raising CancelledError after every
\* supervisor has finished.
CancellationPropagates ==
    /\ \A i \in Tasks : (cancel_req[i] /\ pc[i] \in Finished) => pc[i] = "cancelled"
    /\ (cancel_at # "never" /\ main_pc \in MainFinished) =>
           (main_pc = "cancelled" /\ AllFinished)

\* C9: until the main task is cancelled the cohort has one task per entry
\* of the normalised event_paths list, in order, and each of them runs.
ExactlyNRunning ==
    (main_pc \notin {"start", "config_error"} /\ cancel_at = "never") =>
        LET paths == NormalizeEventPaths(args.event_paths) IN
        /\ Tasks = 1 .. Len(paths)
        /\ event_paths = paths
        /\ \A i \in Tasks : pc[i] \in Running

ConfigErrorBeforeTasks ==
    (main_pc # "start" /\ (~Truthy(args.vault_addr) \/ ~Truthy(args.vault_token))) =>
        /\ main_pc = "config_error"
        /\ Tasks = {}
        /\ queue = <<>>

\* C11 witness: main has ended on an empty token.
ConfigErrorRaised ==
    /\ main_pc = "config_error"
    /\ Truthy(args.vault_addr) /\ args.vault_token = ""

\* C12: a supervisor whose connect() failed or whose connection ended goes
\* through the backoff sleep before it connects again: connect() is only
\* ever started again from the sleep.
ReconnectOnlyAfterBackoff ==
    [][\A i \in Tasks :
          (pc'[i] = "connecting" /\ pc[i] # "connecting") => pc[i] = "backoff"]_vars

\* C13: a step in which supervisor i fails to connect, loses its
\* connection, ends a backoff sleep or receives a frame that is not
\* well-formed JSON leaves every other supervisor j as it was: position,
\* backoff, attempts, received frames, pending event and cancellation.
IndependentFaultDomains ==
    [][\A i, j \in Tasks :
          (/\ i # j
           /\ \/ pc[i] # "backoff" /\ pc'[i] = "backoff"
              \/ pc[i] = "backoff" /\ pc'[i] = "connecting"
              \/ /\ Len(recv'[i]) = Len(recv[i]) + 1
                 /\ ~WellFormedJson(recv'[i][Len(recv'[i])]))
          =>
          /\ pc'[j] = pc[j]
          /\ backoff'[j] = backoff[j]
          /\ attempts'[j] = attempts[j]
          /\ nfail'[j] = nfail[j]
          /\ recv'[j] = recv[j]
          /\ pending'[j] = pending[j]
          /\ cancel_req'[j] = cancel_req[j]]_vars

\* C13 witness: one supervisor sleeps in backoff after a decode failure and
\* a lost connection while the other streams with an event on the queue and
\* backoff at backoff_initial.
OneSleepsOtherStreams ==
    \E i, j \in Tasks :
        /\ i # j
        /\ pc[i] = "backoff"
        /\ Len(recv[i]) = 1 /\ ~WellFormedJson(recv[i][1])
        /\ pc[j] = "streaming"
        /\ Len(RecordsOf(j)) = 1
        /\ backoff[j] = args.backoff_initial


\* The headers dict the caller supplied ({} when the option is absent).
CallerHeaders == IF args.headers.present THEN args.headers.dict ELSE EmptyDict

\* C14: once main has created the supervisors, the headers dict they were
\* given has the key X-Vault-Token, has the key X-Vault-Namespace exactly
\* when the namespace option is non-empty or the caller's headers have that
\* key, and maps every key of the caller's headers to the caller's value;
\* token t, namespace ns1 and headers {X-Extra: v} give exactly those three.
HeadersAssembled ==
    Tasks # {} =>
        /\ "X-Vault-Token" \in DOMAIN headers
        /\ ("X-Vault-Namespace" \in DOMAIN headers) <=>
               (Truthy(args.namespace) \/ "X-Vault-Namespace" \in DOMAIN CallerHeaders)
        /\ \A k \in DOMAIN CallerHeaders : headers[k] = CallerHeaders[k]
        /\ (args.namespace = "ns1" /\ CallerHeaders = Dict1("X-Extra", "v")) =>
               headers = [x \in {"X-Vault-Token", "X-Vault-Namespace", "X-Extra"} |->
                             CASE x = "X-Vault-Token" -> "t"
                               [] x = "X-Vault-Namespace" -> "ns1"
                               [] OTHER -> "v"]

\* C14 witness: a supervisor connected with the three headers of the example.
ThreeHeadersPresented ==
    /\ args.vault_token = "t" /\ args.namespace = "ns1"
    /\ CallerHeaders = Dict1("X-Extra", "v")
    /\ \E i \in Tasks : pc[i] = "streaming"
    /\ DOMAIN headers = {"X-Vault-Token", "X-Vault-Namespace", "X-Extra"}

\* C15 as stated: whatever the caller's headers are, the X-Vault-Token
\* header given to the supervisors is the configured token.
TokenHeaderIsConfigured ==
    Tasks # {} => headers["X-Vault-Token"] = args.vault_token

\* C15: the X-Vault-Token header given to the supervisors is the configured
\* token unless the caller's headers have the key X-Vault-Token, and then it
\* is the caller's value (the caller's headers are merged last).
TokenHeaderLastWriteWins ==
    Tasks # {} =>
        headers["X-Vault-Token"] =
            IF "X-Vault-Token" \in DOMAIN CallerHeaders
            THEN CallerHeaders["X-Vault-Token"]
            ELSE args.vault_token

\* C15 witness: a supervisor connected with the caller's token header, which
\* is not the configured token.
CallerTokenPresented ==
    /\ "X-Vault-Token" \in DOMAIN CallerHeaders
    /\ \E i \in Tasks : pc[i] = "streaming"
    /\ headers["X-Vault-Token"] = "other"
    /\ args.vault_token = "t"


\* s without its first n characters.
Drop(s, n) == SubSeq(s, n + 1, Len(s))

\* C16: the URL returned for a base address that starts with https:// is
\* wss:// followed by the rest of the address, characters unchanged, and for
\* one that starts with http:// it is ws:// followed by the rest unchanged:
\* only the leading scheme is converted, a later http:// or https:// is not.
SchemeSwapPrefixOnly ==
    url.at = "return" =>
        /\ StartsWith(url.vault_addr, Https) =>
               StartsWith(url.event_url, Wss \o Drop(url.vault_addr, Len(Https)))
        /\ StartsWith(url.vault_addr, Http) =>
               StartsWith(url.event_url, Ws \o Drop(url.vault_addr, Len(Http)))

\* The number of places where sub occurs in s.
Occurrences(s, sub) ==
    Cardinality({ k \in 1 .. Len(s) - Len(sub) + 1 :
                    SubSeq(s, k, k + Len(sub) - 1) = sub })

\* The query string of a URL: what follows its first "?".
QueryString(u) ==
    LET first == CHOOSE k \in 1 .. Len(u) :
                     u[k] = "?" /\ \A m \in 1 .. k - 1 : u[m] # "?"
    IN  Drop(u, first)

\* C17: the URL returned is the converted base, /v1/sys/events/subscribe/,
\* the pattern and ?json=true; with no filter or an empty one that is the
\* whole URL, its query string is json=true and &filter= occurs nowhere; with
\* a non-empty filter, &filter= and the encoded filter follow json=true,
\* &filter= occurs exactly once and the encoded filter holds no reserved
\* character.
QueryIsJsonTrueThenFilter ==
    url.at = "return" =>
        LET f == url.filter_expression
            head == url.ws_url \o SubscribePath \o url.event_pattern \o JsonQuery
            supplied == f.present /\ f.str # << >>
            encoded == Drop(url.event_url, Len(head) + Len(FilterParam))
        IN  /\ StartsWith(url.event_url, head)
            /\ ~supplied =>
                   /\ url.event_url = head
                   /\ QueryString(url.event_url) = Tail(JsonQuery)
                   /\ Occurrences(url.event_url, FilterParam) = 0
            /\ supplied =>
                   /\ StartsWith(url.event_url, head \o FilterParam)
                   /\ StartsWith(QueryString(url.event_url), Tail(JsonQuery) \o FilterParam)
                   /\ Occurrences(url.event_url, FilterParam) = 1
                   /\ encoded # << >>
                   /\ \A k \in 1 .. Len(encoded) :
                          encoded[k] \notin {"&", "=", " ", "\"", "?"}

\* C17 witness: a URL returned for a filter that itself holds &filter=.
FilterAppendedOnce ==
    /\ url.at = "return"
    /\ url.filter_expression.str =
           << "a", "&", "f", "i", "l", "t", "e", "r", "=", "b" >>
    /\ Occurrences(url.event_url, FilterParam) = 1
    /\ Len(url.event_url) > Len(url.ws_url \o SubscribePath \o url.event_pattern
                                 \o JsonQuery \o FilterParam)


\* C18: once the coordinator has ended, by cancellation or by an error of
\* one of its supervisor tasks, every supervisor task of its cohort has
\* finished.
NoPartialShutdown ==
    main_pc \in {"cancelled", "failed"} => AllFinished

DropSleepsInitial ==
    [][\A i \in Tasks :
          /\ (pc[i] = "streaming" /\ pc'[i] = "backoff") =>
                 backoff'[i] = args.backoff_initial
          /\ (pc[i] # "backoff" /\ pc'[i] = "backoff"
              /\ backoff'[i] # args.backoff_initial) =>
                 (pc[i] = "connecting" /\ nfail[i] >= 1)]_vars

\* C20 witness: a connection made after a failed attempt delivered a
\* message and dropped, and the supervisor sleeps backoff_initial.
DroppedAfterFailuresAndMessages ==
    \E i \in Tasks :
        /\ pc[i] = "backoff" /\ grown[i] /\ nfail[i] = 0
        /\ Len(recv[i]) >= 1
        /\ backoff[i] = args.backoff_initial
        /\ args.backoff_initial < args.backoff_max


\* C21: when event_paths is an empty list and the required options are set,
\* main has returned normally as soon as it has run: no supervisor task was
\* created, so nothing connects, nothing is put on the queue, and main never
\* waits in gather or ends by cancellation.
EmptyListReturnsAtOnce ==
    (/\ args.event_paths.kind = "list" /\ args.event_paths.list = <<>>
     /\ Truthy(args.vault_addr) /\ Truthy(args.vault_token)
     /\ main_pc # "start") =>
        /\ main_pc = "returned"
        /\ event_paths = <<>>
        /\ Tasks = {}
        /\ queue = <<>>
        /\ outer = "pending" /\ cancel_at = "never"

\* C21 witness: main has returned for an empty list of patterns.
ReturnedForEmptyList ==
    /\ args.event_paths.kind = "list" /\ args.event_paths.list = <<>>
    /\ main_pc = "returned"
    /\ pc = <<>> /\ queue = <<>>

====
